---- MODULE Spec2Model ----
(***************************************************************************)
(* A model of src/src/render.js: the asynchronous render(state, mod,       *)
(* dataView, windowSize) cycle of the wellbore schematic and its helper    *)
(* functions get_survey, min_curvature_algo, get_scales, compute_slope and *)
(* the drawing of the two groups into the module-level svg.                *)
(*                                                                         *)
(* Numbers.  JavaScript numbers are modelled exactly where the code's      *)
(* control flow depends on them and in fixed point elsewhere:              *)
(*   - measured depth and the derived positions (tvd, x, ew, ns) are       *)
(*     integers counting tenths of the survey's unit, so the tolerance     *)
(*     0.1 of get_survey is the integer 1;                                 *)
(*   - angles are whole degrees; sines, cosines and the ratio factor are   *)
(*     in thousandths;                                                     *)
(*   - scale domains are in hundredths of a position unit, pixel           *)
(*     coordinates are exact rationals;                                    *)
(*   - a quotient of pixel differences is an IEEE value: finite, +Inf,     *)
(*     -Inf or NaN.                                                        *)
(***************************************************************************)
EXTENDS Integers, Sequences, FiniteSets, TLC

VARIABLES
    pc,               \* per render call: where it is
    windowSize,       \* per render call: its windowSize argument
    errors,           \* per render call: what dataView.getErrors() resolved to
    allrows,          \* per render call: what dataView.allRows() resolved to
    survey,           \* per render call: what get_survey returned
    processed_survey, \* per render call: what min_curvature_algo returned
    thetas,           \* per render call: the thetas compute_slope stored
    calls,            \* per render call: the helpers it has entered
    error,            \* per render call: the helper a TypeError left, or "none"
    svg,              \* the children of the module-level svg element
    dataViewOverlay,  \* errorOverlay, category "dataView": the errors shown
    surveyOverlay,    \* errorOverlay, category "survey": the message shown
    preventRender,    \* state.preventRender
    started,          \* the render call that last cleared the svg (0: none)
    pool              \* which rows the data view of this run may hold

vars == <<pc, windowSize, errors, allrows, survey, processed_survey, thetas, calls,
          error, svg, dataViewOverlay, surveyOverlay, preventRender, started,
          pool>>

(***************************************************************************)
(* Bounds of the model.                                                    *)
(***************************************************************************)
MaxCycles == 2
MaxRows == 2
MaxStations == 3
MaxErrors == 1

(***************************************************************************)
(* Integer helpers.                                                        *)
(***************************************************************************)
\* The element of a set of one element.  {e : v \in {d}} evaluates d once,
\* however often e reads v.
The(S) == CHOOSE x \in S : TRUE

Abs(a) == IF a < 0 THEN -a ELSE a

RECURSIVE GCD(_, _)
GCD(a, b) == IF b = 0 THEN a ELSE The({GCD(b, r) : r \in {a % b}})

FloorDiv(a, b) == a \div b

CeilDiv(a, b) == -((-a) \div b)

RECURSIVE ISqrtFrom(_, _)
ISqrtFrom(n, r) == IF (r + 1) * (r + 1) > n THEN r ELSE ISqrtFrom(n, r + 1)

\* Math.sqrt on a non-negative integer, rounded down.
ISqrt(n) == ISqrtFrom(n, 0)

SeqMin(s) == CHOOSE v \in {s[i] : i \in 1..Len(s)} :
                 \A i \in 1..Len(s) : v <= s[i]

SeqMax(s) == CHOOSE v \in {s[i] : i \in 1..Len(s)} :
                 \A i \in 1..Len(s) : v >= s[i]

(***************************************************************************)
(* Exact rationals (pixel coordinates) and IEEE values (slopes).           *)
(***************************************************************************)
\* n / d in lowest terms, the denominator positive.
Rat(n, d) ==
    The({[n |-> (IF d < 0 THEN -1 ELSE 1) * (n \div g),
          d |-> (IF d < 0 THEN -1 ELSE 1) * (d \div g)] :
         g \in {GCD(Abs(n), Abs(d))}})

RatSub(a, b) ==
    The({Rat(a.n * (l \div a.d) - b.n * (l \div b.d), l) :
         l \in {(a.d \div GCD(a.d, b.d)) * b.d}})

Fin(n, d) == The({[k |-> "fin", n |-> r.n, d |-> r.d] : r \in {Rat(n, d)}})

PInf == [k |-> "pinf", n |-> 0, d |-> 1]

NInf == [k |-> "ninf", n |-> 0, d |-> 1]

NaN == [k |-> "nan", n |-> 0, d |-> 1]

\* a / b for two finite numbers a, b given as rationals.  A difference of
\* two equal doubles is +0, so a zero divisor is +0: x/0 is +Inf, -Inf or,
\* for 0/0, NaN.
FDiv(a, b) ==
    IF b.n = 0
    THEN (IF a.n > 0 THEN PInf ELSE IF a.n < 0 THEN NInf ELSE NaN)
    ELSE Fin(a.n * b.d, a.d * b.n)

\* 0.5 * v
FHalf(v) == IF v.k = "fin" THEN Fin(v.n, 2 * v.d) ELSE v

\* v + w
FAdd(v, w) ==
    IF v.k = "nan" \/ w.k = "nan" THEN NaN
    ELSE IF v.k = "fin" /\ w.k = "fin"
         THEN The({Fin(v.n * (l \div v.d) + w.n * (l \div w.d), l) :
                   l \in {(v.d \div GCD(v.d, w.d)) * w.d}})
    ELSE IF v.k = "fin" THEN w
    ELSE IF w.k = "fin" THEN v
    ELSE IF v.k = w.k THEN v
    ELSE NaN

\* -1 / m
NegRecip(m) ==
    IF m.k = "nan" THEN NaN
    ELSE IF m.k = "fin"
         THEN (IF m.n = 0 THEN NInf ELSE Fin(-m.d, m.n))
    ELSE Fin(0, 1)

(***************************************************************************)
(* Math.sin, Math.cos, Math.acos, Math.tan and Math.atan in fixed point.   *)
(* The surveys of the model hold inclinations that are multiples of 30     *)
(* degrees and azimuths that are multiples of 90 degrees.                  *)
(***************************************************************************)
\* Math.sin(deg * Math.PI / 180) in thousandths, deg a multiple of 30.
SinMilli(deg) ==
    LET a == deg % 360
    IN CASE a = 0 -> 0      [] a = 30 -> 500    [] a = 60 -> 866
         [] a = 90 -> 1000  [] a = 120 -> 866   [] a = 150 -> 500
         [] a = 180 -> 0    [] a = 210 -> -500  [] a = 240 -> -866
         [] a = 270 -> -1000 [] a = 300 -> -866 [] a = 330 -> -500

\* Math.cos(deg * Math.PI / 180) in thousandths.
CosMilli(deg) == SinMilli(deg + 90)

\* The value Math.acos has no result for: an argument outside [-1, 1].
BetaNaN == -1

\* Math.acos(c / 1000) to the nearest multiple of 15 degrees (the bounds
\* are the means of the cosines of neighbouring multiples); NaN (BetaNaN)
\* outside [-1, 1].
AcosDeg(c) ==
    IF c > 1000 \/ c < -1000 THEN BetaNaN
    ELSE IF c >= 983 THEN 0
    ELSE IF c >= 916 THEN 15
    ELSE IF c >= 787 THEN 30
    ELSE IF c >= 604 THEN 45
    ELSE IF c >= 380 THEN 60
    ELSE IF c >= 130 THEN 75
    ELSE IF c >= -129 THEN 90
    ELSE IF c >= -379 THEN 105
    ELSE IF c >= -603 THEN 120
    ELSE IF c >= -786 THEN 135
    ELSE IF c >= -915 THEN 150
    ELSE IF c >= -982 THEN 165
    ELSE 180

\* Math.tan(Math.PI / 2) is finite in IEEE arithmetic (1.6e16); the model
\* keeps it finite and large.
TanHalfPiMilli == 1000000

\* Math.tan(beta / 2) in thousandths, beta a multiple of 15 degrees.
TanHalfMilli(beta) ==
    CASE beta = 0 -> 0      [] beta = 15 -> 132   [] beta = 30 -> 268
      [] beta = 45 -> 414   [] beta = 60 -> 577   [] beta = 75 -> 767
      [] beta = 90 -> 1000  [] beta = 105 -> 1303 [] beta = 120 -> 1732
      [] beta = 135 -> 2414 [] beta = 150 -> 3732 [] beta = 165 -> 7596
      [] beta = 180 -> TanHalfPiMilli

\* beta in thousandths of a radian.
RadMilli(beta) == (beta * 3142) \div 180

\* Lines 159-162: the ratio factor in thousandths.  Math.abs(NaN) > 0.00001
\* is false, so a NaN beta leaves rf = 1.
RatioFactor(beta) ==
    IF beta # BetaNaN /\ RadMilli(beta) > 0
    THEN (2000 * TanHalfMilli(beta)) \div RadMilli(beta)
    ELSE 1000

\* a / b rounded to the nearest integer (b > 0).
RoundDiv(a, b) == (2 * a + b) \div (2 * b)

(***************************************************************************)
(* get_survey (lines 123-148).                                             *)
(***************************************************************************)
\* 0.1 of line 144, in tenths.
MdTol == 1

\* An optional value: JavaScript's undefined, or a sequence.
Undefined == [defined |-> FALSE, val |-> <<>>]

Some(v) == [defined |-> TRUE, val |-> v]

NoMessage == [field |-> "none", value |-> 0, row |-> 0]

\* RowError reporting the 0-based index i instead of i + 1.
RowErrorZeroBased(d, i) ==
    IF d.inc < 0 \/ d.inc > 180
    THEN [field |-> "Inclination", value |-> d.inc, row |-> i]
    ELSE IF d.md < 0
    THEN [field |-> "MD", value |-> d.md, row |-> i]
    ELSE IF d.az < 0 \/ d.az > 360
    THEN [field |-> "Azimuth", value |-> d.az, row |-> i]
    ELSE NoMessage

\* Lines 130-136: the Error thrown for row d at 0-based index i, or
\* NoMessage.
RowError(d, i) ==
    IF d.inc < 0 \/ d.inc > 180
    THEN [field |-> "Inclination", value |-> d.inc, row |-> i + 1]
    ELSE IF d.md < 0
    THEN [field |-> "MD", value |-> d.md, row |-> i + 1]
    ELSE IF d.az < 0 \/ d.az > 360
    THEN [field |-> "Azimuth", value |-> d.az, row |-> i + 1]
    ELSE NoMessage

\* Lines 126-137: Array.prototype.map calls the callback on the rows in
\* index order, so the error that leaves it is the one of the first row
\* that has one.
RECURSIVE MapRows(_, _)
MapRows(rows, i) ==
    IF i >= Len(rows) THEN NoMessage
    ELSE IF RowError(rows[i + 1], i) # NoMessage THEN RowError(rows[i + 1], i)
    ELSE MapRows(rows, i + 1)

\* Insert station d after every station b with b.md <= d.md, that is
\* before the first b with (a, b) => a.md - b.md positive.
RECURSIVE InsertByMd(_, _)
InsertByMd(s, d) ==
    IF s = <<>> THEN <<d>>
    ELSE IF s[1].md - d.md > 0 THEN <<d>> \o s
    ELSE <<s[1]>> \o InsertByMd(Tail(s), d)

\* Line 138: Array.prototype.sort((a, b) => a.md - b.md), a stable sort.
RECURSIVE SortByMd(_)
SortByMd(s) ==
    IF s = <<>> THEN <<>>
    ELSE The({InsertByMd(t, s[Len(s)]) :
              t \in {SortByMd(SubSeq(s, 1, Len(s) - 1))}})

SurfaceStation == [md |-> 0, inc |-> 0, az |-> 0]

\* PrependSurface with >= in the place of > (line 144).
PrependSurfaceAtTolerance(sorted) ==
    IF sorted[1].md >= MdTol THEN <<SurfaceStation>> \o sorted ELSE sorted

\* Lines 144-146.
PrependSurface(sorted) ==
    IF sorted[1].md > MdTol THEN <<SurfaceStation>> \o sorted ELSE sorted

\* get_survey(allrows, mod): what it leaves on the "survey" channel of the
\* error overlay, whether a TypeError leaves it (line 144 reads
\* survey[0].md of an empty array), and what it returns.
get_survey(rows) ==
    The({IF err # NoMessage
         THEN [overlay |-> err, threw |-> FALSE, ret |-> Undefined]
         ELSE IF Len(rows) = 0
         THEN [overlay |-> NoMessage, threw |-> TRUE, ret |-> Undefined]
         ELSE [overlay |-> NoMessage, threw |-> FALSE,
               ret |-> Some(The({PrependSurface(sorted) :
                                 sorted \in {SortByMd(rows)}}))] :
         err \in {MapRows(rows, 0)}})

(***************************************************************************)
(* min_curvature_algo (lines 150-172).                                     *)
(***************************************************************************)
Positioned(st, ew, ns, tvd, x) ==
    [md |-> st.md, inc |-> st.inc, az |-> st.az,
     ew |-> ew, ns |-> ns, tvd |-> tvd, x |-> x]

\* Line 158: the argument of Math.acos, in thousandths.
CosBeta(s1, s2) ==
    ((((SinMilli(s1.inc) * SinMilli(s2.inc)) \div 1000)
        * (CosMilli(s2.az - s1.az) - 1000)) \div 1000)
    + CosMilli(s2.inc - s1.inc)

\* Lines 154-167: the increments of one segment.
Increments(s1, s2, rf, dmd) ==
    The({[dz |-> RoundDiv(dmd * (CosMilli(s1.inc) + CosMilli(s2.inc)) * rf,
                          2000000),
          dx |-> dx, dy |-> dy, ds |-> ISqrt(dx * dx + dy * dy)] :
         dx \in {RoundDiv(dmd * ((SinMilli(s1.inc) * SinMilli(s1.az)
                                  + SinMilli(s2.inc) * SinMilli(s2.az))
                                 \div 1000) * rf, 2000000)},
         dy \in {RoundDiv(dmd * ((SinMilli(s1.inc) * CosMilli(s1.az)
                                  + SinMilli(s2.inc) * CosMilli(s2.az))
                                 \div 1000) * rf, 2000000)}})

Segment(s1, s2) ==
    The({Increments(s1, s2, rf, s2.md - s1.md) :
         rf \in {RatioFactor(AcosDeg(CosBeta(s1, s2)))}})

\* Push with the horizontal distance subtracted instead of added.
PushBackwards(p, sv, g) ==
    Positioned(sv, p.ew + g.dx, p.ns + g.dy, p.tvd + g.dz, p.x - g.ds)

\* Lines 168-169: the station pushed for sv, after the station p, over the
\* increments g.
Push(p, sv, g) ==
    Positioned(sv, p.ew + g.dx, p.ns + g.dy, p.tvd + g.dz, p.x + g.ds)

\* Lines 151-171: processed_survey once the loop has pushed n stations.
RECURSIVE Integrate(_, _)
Integrate(sv, n) ==
    IF n = 1 THEN <<Positioned(sv[1], 0, 0, 0, 0)>>
    ELSE The({Append(acc, Push(acc[n - 1], sv[n], g)) :
              acc \in {Integrate(sv, n - 1)},
              g \in {Segment(sv[n - 1], sv[n])}})

\* min_curvature_algo(survey).  survey[0] of undefined is a TypeError
\* (line 152).
min_curvature_algo(sv) ==
    IF ~sv.defined THEN [threw |-> TRUE, ret |-> <<>>]
    ELSE [threw |-> FALSE, ret |-> Integrate(sv.val, Len(sv.val))]

(***************************************************************************)
(* get_scales (lines 174-189).  d3.scaleLinear().domain(..).nice(20) is    *)
(* the library's: tickIncrement picks a step of 1, 2 or 5 times a power of *)
(* ten near a twentieth of the span, and nice() moves both ends outward to *)
(* multiples of it until the step no longer changes.  Domains are in       *)
(* hundredths of a position unit, where every such step is an integer.     *)
(***************************************************************************)
margin == [top |-> 20, right |-> 40, bottom |-> 40, left |-> 80]

\* The number of ticks passed to nice().
NiceCount == 20

\* The number of rounds nice() makes at most.
NiceMaxIter == 10

RECURSIVE PowerOfTen(_, _)
PowerOfTen(span, p) ==
    IF 10 * p * NiceCount <= span THEN PowerOfTen(span, 10 * p) ELSE p

\* d3.tickIncrement(start, stop, NiceCount); 0 for an empty span.
TickStep(span, p) ==
    IF span * 1000 >= 7071 * NiceCount * p THEN 10 * p
    ELSE IF span * 1000 >= 3162 * NiceCount * p THEN 5 * p
    ELSE IF span * 1000 >= 1414 * NiceCount * p THEN 2 * p
    ELSE p

TickIncrement(start, stop) ==
    IF stop - start <= 0 THEN 0
    ELSE The({TickStep(stop - start, p) :
              p \in {PowerOfTen(stop - start, 1)}})

RECURSIVE NiceLoop(_, _, _, _, _)
NiceLoop(dom, start, stop, prestep, iter) ==
    The({IF iter = 0 \/ step = 0 THEN dom
         ELSE IF step = prestep THEN [d0 |-> start, d1 |-> stop]
         ELSE The({NiceLoop(dom, lo, hi, step, iter - 1) :
                   lo \in {FloorDiv(start, step) * step},
                   hi \in {CeilDiv(stop, step) * step}}) :
         step \in {TickIncrement(start, stop)}})

Nice(dom) == NiceLoop(dom, dom.d0, dom.d1, -1, NiceMaxIter)

\* Lines 178 and 185: [min - 0.01 * max, 1.05 * max], in hundredths.
PaddedDomain(values) ==
    [d0 |-> 100 * SeqMin(values) - SeqMax(values),
     d1 |-> 105 * SeqMax(values)]

Tvds(sv) == [i \in 1..Len(sv) |-> sv[i].tvd]

Xs(sv) == [i \in 1..Len(sv) |-> sv[i].x]

get_scales(sv, w) ==
    The({[yScale |-> [dom |-> Nice(ydomain),
                      r0 |-> margin.top, r1 |-> w.height - margin.bottom],
          xScale |-> [dom |-> Nice(xdomain),
                      r0 |-> margin.left, r1 |-> w.width - margin.right]] :
         ydomain \in {PaddedDomain(Tvds(sv))},
         xdomain \in {PaddedDomain(Xs(sv))}})

\* scale(v), a pixel coordinate.  A d3 linear scale whose domain is a
\* single point maps every value to the middle of its range.
ScaleApply(sc, v) ==
    IF sc.dom.d1 = sc.dom.d0 THEN Rat(sc.r0 + sc.r1, 2)
    ELSE Rat(sc.r0 * (sc.dom.d1 - sc.dom.d0)
             + (100 * v - sc.dom.d0) * (sc.r1 - sc.r0),
             sc.dom.d1 - sc.dom.d0)

(***************************************************************************)
(* compute_slope (lines 191-208).                                          *)
(***************************************************************************)
\* An angle in whole degrees, or NaN.
Angle(deg) == [nan |-> FALSE, deg |-> deg]

AngleNaN == [nan |-> TRUE, deg |-> 0]

\* Math.atan of a finite positive number n/d, to the largest of 1, 15, 30,
\* 45, 60, 75, 89 degrees whose tangent is at most n/d (1 below them all).
AtanPos(n, d) ==
    IF n * 100 >= 5729 * d THEN 89
    ELSE IF n * 100 >= 373 * d THEN 75
    ELSE IF n * 100 >= 173 * d THEN 60
    ELSE IF n * 100 >= 100 * d THEN 45
    ELSE IF n * 100 >= 58 * d THEN 30
    ELSE IF n * 100 >= 27 * d THEN 15
    ELSE 1

\* Math.atan(t) in degrees.
Atan(t) ==
    IF t.k = "nan" THEN AngleNaN
    ELSE IF t.k = "pinf" THEN Angle(90)
    ELSE IF t.k = "ninf" THEN Angle(-90)
    ELSE IF t.n = 0 THEN Angle(0)
    ELSE IF t.n > 0 THEN Angle(AtanPos(t.n, t.d))
    ELSE Angle(-AtanPos(-t.n, t.d))

\* Line 205: (theta >= 0) ? theta : Math.PI + theta.
Normalize(t) ==
    IF t.nan THEN AngleNaN
    ELSE IF t.deg >= 0 THEN t
    ELSE Angle(180 + t.deg)

\* The secant slope between stations a and b (b the later one), as lines
\* 196, 198, 200 and 201 compute it.
Secant(a, b, xScale, yScale) ==
    The({FDiv(dy, dx) :
         dy \in {RatSub(ScaleApply(yScale, a.tvd), ScaleApply(yScale, b.tvd))},
         dx \in {RatSub(ScaleApply(xScale, b.x), ScaleApply(xScale, a.x))}})

\* Lines 195-202 for the 0-based index i of a survey of at least two
\* stations.
SlopeAt(sv, i, xScale, yScale) ==
    IF i = 0 THEN Secant(sv[1], sv[2], xScale, yScale)
    ELSE IF i = Len(sv) - 1 THEN Secant(sv[i], sv[i + 1], xScale, yScale)
    ELSE The({FAdd(FHalf(fwd), FHalf(bwd)) :
              fwd \in {Secant(sv[i + 1], sv[i + 2], xScale, yScale)},
              bwd \in {Secant(sv[i], sv[i + 1], xScale, yScale)}})

\* The previous station's theta (line 206), read when theta is NaN.  At
\* i = 0 this reads survey[-1].theta, a TypeError.
PreviousThetaReadable(i) == i > 0

\* Lines 203-205.
ThetaOf(m) == The({Normalize(t) : t \in {Atan(NegRecip(m))}})

\* Lines 194-206 for the 0-based index i, after the thetas in acc were
\* stored.  survey[i + 1] does not exist at i = 0 in a survey of one
\* station: reading its tvd (line 196) is a TypeError.
SlopeStep(sv, i, acc, xScale, yScale) ==
    IF i = 0 /\ Len(sv) = 1 THEN [threw |-> TRUE, thetas |-> acc]
    ELSE The({IF ~th.nan THEN [threw |-> FALSE, thetas |-> Append(acc, th)]
              ELSE IF PreviousThetaReadable(i)
              THEN [threw |-> FALSE, thetas |-> Append(acc, acc[i])]
              ELSE [threw |-> TRUE, thetas |-> acc] :
              th \in {The({ThetaOf(m) :
                           m \in {SlopeAt(sv, i, xScale, yScale)}})}})

\* The loop of lines 193-207 over the 0-based indices below n.
RECURSIVE SlopeLoop(_, _, _, _)
SlopeLoop(sv, n, xScale, yScale) ==
    IF n = 0 THEN [threw |-> FALSE, thetas |-> <<>>]
    ELSE The({IF before.threw THEN before
              ELSE SlopeStep(sv, n - 1, before.thetas, xScale, yScale) :
              before \in {SlopeLoop(sv, n - 1, xScale, yScale)}})

compute_slope(sv, xScale, yScale) == SlopeLoop(sv, Len(sv), xScale, yScale)

(***************************************************************************)
(* The svg scene (lines 31, 62, 102-103, 114-115).                         *)
(***************************************************************************)
Group(class, c) == [class |-> class, by |-> c, drawn |-> <<>>, circles |-> 0]

\* svg.select("." + class): the first child of that class.
SelectFirst(scene, class) ==
    CHOOSE i \in 1..Len(scene) :
        /\ scene[i].class = class
        /\ \A j \in 1..(i - 1) : scene[j].class # class

\* draw_axes (lines 210-240) appends the two axes to the selected group.
draw_axes(scene, c) ==
    [scene EXCEPT ![SelectFirst(scene, "axes")].drawn = Append(@, c)]

\* draw_wellbore (lines 242-307) appends three paths to the selected group
\* and a circle for each station that has none yet (selectAll, data,
\* enter).
draw_wellbore(scene, c, n) ==
    LET g == SelectFirst(scene, "wellbore")
    IN [scene EXCEPT ![g].drawn = Append(@, c),
                     ![g].circles = IF @ >= n THEN @ ELSE n]

\* Lines 102-115: the two groups are appended to whatever the svg holds,
\* then drawn into.
Draw(scene, c, n) ==
    draw_wellbore(
        draw_axes(scene \o <<Group("wellbore", c), Group("axes", c)>>, c),
        c, n)

(***************************************************************************)
(* Lines 92-115, the part of render after its second await: every helper   *)
(* render calls, in order, up to the first one a TypeError leaves.         *)
(***************************************************************************)
Result(callsMade, thrownBy, gs, processed, angles) ==
    [calls |-> callsMade, error |-> thrownBy, overlay |-> gs.overlay,
     survey |-> gs.ret, processed |-> processed, theta |-> angles]

\* Lines 95-115.
AfterIntegration(gs, mc, w) ==
    The({IF cs.threw
         THEN Result(<<"get_survey", "min_curvature_algo", "get_scales",
                       "compute_slope">>, "compute_slope", gs,
                     Some(mc.ret), cs.thetas)
         ELSE Result(<<"get_survey", "min_curvature_algo", "get_scales",
                       "compute_slope", "draw_axes", "draw_wellbore">>,
                     "none", gs, Some(mc.ret), cs.thetas) :
         cs \in {The({compute_slope(mc.ret, sc.xScale, sc.yScale) :
                      sc \in {get_scales(mc.ret, w)}})}})

\* Lines 94-115.
AfterSurvey(gs, w) ==
    The({IF mc.threw
         THEN Result(<<"get_survey", "min_curvature_algo">>,
                     "min_curvature_algo", gs, Undefined, <<>>)
         ELSE AfterIntegration(gs, mc, w) :
         mc \in {min_curvature_algo(gs.ret)}})

\* Lines 93-115.
AfterRows(rows, w) ==
    The({IF gs.threw
         THEN Result(<<"get_survey">>, "get_survey", gs, Undefined, <<>>)
         ELSE AfterSurvey(gs, w) :
         gs \in {get_survey(rows)}})

(***************************************************************************)
(* The inputs.                                                             *)
(***************************************************************************)
Windows == {[width |-> 100, height |-> 50], [width |-> 320, height |-> 260]}

Row(md, inc, az) == [md |-> md, inc |-> inc, az |-> az]

SeqsUpTo(S, n) == UNION {[1..k -> S] : k \in 0..n}

\* Rows for the runs of overlapping render calls.
RenderRows == {Row(2, 60, 90), Row(0, 210, 0)}

\* Rows around every bound get_survey tests.
SurveyRows ==
    {Row(md, inc, az) : md \in {-1, 0, 1, 2, 3}, inc \in {-30, 0, 180, 210},
                        az \in {-90, 0, 360, 450}}

\* Rows get_survey accepts.
TrajectoryRows ==
    {Row(md, inc, az) : md \in {0, 2, 4}, inc \in {0, 90, 120},
                        az \in {0, 90}}

Inputs(p) ==
    CASE p = "render" -> SeqsUpTo(RenderRows, MaxRows)
      [] p = "survey" -> SeqsUpTo(SurveyRows, MaxRows)
      [] p = "trajectory" -> SeqsUpTo(TrajectoryRows, MaxStations)

ErrorLists == {[i \in 1..k |-> "error"] : k \in 0..MaxErrors}

(***************************************************************************)
(* The state machine.  JavaScript runs a function to its next await        *)
(* without interruption, so a render call takes three steps: to its first  *)
(* await (line 84), to its second (line 92), to its end.                   *)
(***************************************************************************)
Cycles == DOMAIN pc

InitWith(p, n) ==
    /\ pc = [c \in 1..n |-> "idle"]
    /\ windowSize = [c \in 1..n |-> [width |-> 0, height |-> 0]]
    /\ errors = [c \in 1..n |-> Undefined]
    /\ allrows = [c \in 1..n |-> Undefined]
    /\ survey = [c \in 1..n |-> Undefined]
    /\ processed_survey = [c \in 1..n |-> Undefined]
    /\ thetas = [c \in 1..n |-> <<>>]
    /\ calls = [c \in 1..n |-> <<>>]
    /\ error = [c \in 1..n |-> "none"]
    /\ svg = <<>>
    /\ dataViewOverlay = <<>>
    /\ surveyOverlay = NoMessage
    /\ preventRender = FALSE
    /\ started = 0
    /\ pool = p

Init == InitWith("render", MaxCycles)

InitSurvey == InitWith("survey", 1)

InitTrajectory == InitWith("trajectory", 1)

\* Lines 40-84: render(state, mod, dataView, windowSize) up to its first
\* await.
Render(c, w) ==
    /\ pc[c] = "idle"
    /\ UNCHANGED <<errors, allrows, survey, processed_survey, thetas, calls,
                   error, dataViewOverlay, surveyOverlay, preventRender, pool>>
    /\ IF preventRender
       THEN /\ pc' = [pc EXCEPT ![c] = "returnPrevented"]
            /\ UNCHANGED <<windowSize, svg, started>>
       ELSE /\ windowSize' = [windowSize EXCEPT ![c] = w]
            /\ svg' = <<>>
            /\ started' = c
            /\ pc' = [pc EXCEPT ![c] =
                        IF \/ w.height - (margin.top + margin.bottom) < 0
                           \/ w.width - (margin.left + margin.right) < 0
                        THEN "returnTooSmall"
                        ELSE "getErrors"]

\* ResumeErrors without the return of line 87: the errors are shown and the
\* cycle goes on to fetch the rows.
ResumeErrorsNoReturn(c, errs) ==
    /\ pc[c] = "getErrors"
    /\ errors' = [errors EXCEPT ![c] = Some(errs)]
    /\ UNCHANGED <<windowSize, allrows, survey, processed_survey, thetas,
                   calls, error, svg, surveyOverlay, preventRender, started,
                   pool>>
    /\ dataViewOverlay' = errs
    /\ pc' = [pc EXCEPT ![c] = "allRows"]

\* Lines 84-92: dataView.getErrors() resolves to errors.
ResumeErrors(c, errs) ==
    /\ pc[c] = "getErrors"
    /\ errors' = [errors EXCEPT ![c] = Some(errs)]
    /\ UNCHANGED <<windowSize, allrows, survey, processed_survey, thetas,
                   calls, error, svg, surveyOverlay, preventRender, started,
                   pool>>
    /\ IF Len(errs) > 0
       THEN /\ dataViewOverlay' = errs
            /\ pc' = [pc EXCEPT ![c] = "returnErrors"]
       ELSE /\ dataViewOverlay' = <<>>
            /\ pc' = [pc EXCEPT ![c] = "allRows"]

\* Lines 92-116: dataView.allRows() resolves to rows.
ResumeRows(c, rows) ==
    /\ pc[c] = "allRows"
    /\ \E r \in {AfterRows(rows, windowSize[c])} :
          /\ allrows' = [allrows EXCEPT ![c] = Some(rows)]
          /\ survey' = [survey EXCEPT ![c] = r.survey]
          /\ processed_survey' = [processed_survey EXCEPT ![c] = r.processed]
          /\ thetas' = [thetas EXCEPT ![c] = r.theta]
          /\ calls' = [calls EXCEPT ![c] = r.calls]
          /\ error' = [error EXCEPT ![c] = r.error]
          /\ surveyOverlay' = r.overlay
          /\ pc' = [pc EXCEPT ![c] = IF r.error = "none" THEN "done"
                                     ELSE "threw"]
          /\ svg' = IF r.error = "none"
                    THEN Draw(svg, c, Len(r.processed.val))
                    ELSE svg
    /\ UNCHANGED <<windowSize, errors, dataViewOverlay, preventRender, started,
                   pool>>

\* Lines 69-71: the selection handler sets state.preventRender.
onSelection(dragSelectActive) ==
    /\ preventRender # dragSelectActive
    /\ preventRender' = dragSelectActive
    /\ UNCHANGED <<pc, windowSize, errors, allrows, survey, processed_survey, thetas,
                   calls, error, svg, dataViewOverlay, surveyOverlay, started,
                   pool>>

Next ==
    \/ \E c \in Cycles : pc[c] = "idle" /\ \E w \in Windows : Render(c, w)
    \/ \E c \in Cycles :
          pc[c] = "getErrors" /\ \E errs \in ErrorLists : ResumeErrors(c, errs)
    \/ \E c \in Cycles :
          pc[c] = "allRows" /\ \E rows \in Inputs(pool) : ResumeRows(c, rows)
    \/ \E b \in BOOLEAN : onSelection(b)

Spec == Init /\ [][Next]_vars

SpecSurvey == InitSurvey /\ [][Next]_vars

SpecTrajectory == InitTrajectory /\ [][Next]_vars

(***************************************************************************)
(* Properties.                                                             *)
(***************************************************************************)
\* C1 (as stated): a cycle whose rows hold a row out of range ends at the
\* validator: get_survey is the only helper it enters and no TypeError
\* leaves it.
C1_ValidationFailureIsTerminal ==
    \A c \in Cycles :
        (/\ allrows[c].defined
         /\ \E i \in 1..Len(allrows[c].val) :
               LET d == allrows[c].val[i]
               IN d.inc < 0 \/ d.inc > 180 \/ d.md < 0 \/ d.az < 0
                  \/ d.az > 360)
        => /\ calls[c] = <<"get_survey">>
           /\ error[c] = "none"
           /\ pc[c] # "threw"

\* C2 (as stated): a cycle whose rows are the empty sequence is rejected
\* without any stage reading a station of it: no TypeError leaves the
\* cycle.
C2_EmptyInputIsRejected ==
    \A c \in Cycles :
        (allrows[c].defined /\ allrows[c].val = <<>>)
        => /\ error[c] = "none"
           /\ pc[c] # "threw"

\* C3: a cycle whose error fetch reports errors has cleared the svg when it
\* started, shows the errors on the dataView channel, leaves the survey
\* channel and the svg as they are, and ends there: it fetches no rows,
\* enters no helper and draws nothing.
C3_FetchErrorsAbortTheCycle ==
    /\ [](\A c \in Cycles :
            (errors[c].defined /\ Len(errors[c].val) > 0)
            => /\ pc[c] = "returnErrors"
               /\ ~allrows[c].defined
               /\ ~survey[c].defined
               /\ ~processed_survey[c].defined
               /\ calls[c] = <<>>
               /\ \A i \in 1..Len(svg) :
                     /\ svg[i].by # c
                     /\ \A j \in 1..Len(svg[i].drawn) : svg[i].drawn[j] # c)
    /\ [][\A c \in Cycles :
            /\ (pc[c] = "idle" /\ pc'[c] \in {"getErrors", "returnTooSmall"})
               => (svg' = <<>> /\ surveyOverlay' = surveyOverlay)
            /\ (pc[c] = "getErrors" /\ pc'[c] = "returnErrors")
               => /\ errors'[c].defined
                  /\ Len(errors'[c].val) > 0
                  /\ dataViewOverlay' = errors'[c].val
                  /\ surveyOverlay' = surveyOverlay
                  /\ svg' = svg]_vars

\* C3 witness: a cycle has ended on fetch errors while the survey channel
\* still shows the message an earlier cycle left.
C3_Witness ==
    \E c \in Cycles :
        /\ pc[c] = "returnErrors"
        /\ dataViewOverlay # <<>>
        /\ surveyOverlay # NoMessage
        /\ svg = <<>>

\* C4 (as stated): if a row has inclination < 0 or > 180, measured depth
\* < 0 or azimuth < 0, validation fails and the failure names the 1-based
\* index, in input order, of the first such row with an offending value of
\* it; rows all within inclination [0, 180], measured depth >= 0 and
\* azimuth [0, 360) pass validation.
C4_NamesFirstListedRow ==
    \A c \in Cycles :
        allrows[c].defined =>
            LET rows == allrows[c].val
                bad == {i \in 1..Len(rows) :
                           \/ rows[i].inc < 0 \/ rows[i].inc > 180
                           \/ rows[i].md < 0 \/ rows[i].az < 0}
                m == surveyOverlay
            IN /\ bad # {} =>
                    /\ ~survey[c].defined
                    /\ m.row \in bad
                    /\ \A i \in bad : m.row <= i
                    /\ \/ /\ m.field = "Inclination"
                          /\ m.value = rows[m.row].inc
                          /\ (m.value < 0 \/ m.value > 180)
                       \/ (m.field = "MD" /\ m.value = rows[m.row].md
                           /\ m.value < 0)
                       \/ (m.field = "Azimuth" /\ m.value = rows[m.row].az
                           /\ m.value < 0)
               /\ (\A i \in 1..Len(rows) :
                      /\ rows[i].inc >= 0 /\ rows[i].inc <= 180
                      /\ rows[i].md >= 0
                      /\ rows[i].az >= 0 /\ rows[i].az < 360)
                  => m = NoMessage

\* C4 (amended): if a row has inclination < 0 or > 180, measured depth < 0
\* or azimuth < 0 or > 360, validation fails and the failure names the
\* 1-based index, in input order, of the first such row with an offending
\* value of it; rows all within inclination [0, 180], measured depth >= 0
\* and azimuth [0, 360) pass validation.
C4_NamesFirstRejectedRow ==
    \A c \in Cycles :
        allrows[c].defined =>
            LET rows == allrows[c].val
                bad == {i \in 1..Len(rows) :
                           \/ rows[i].inc < 0 \/ rows[i].inc > 180
                           \/ rows[i].md < 0
                           \/ rows[i].az < 0 \/ rows[i].az > 360}
                m == surveyOverlay
            IN /\ bad # {} =>
                    /\ ~survey[c].defined
                    /\ m.row \in bad
                    /\ \A i \in bad : m.row <= i
                    /\ \/ /\ m.field = "Inclination"
                          /\ m.value = rows[m.row].inc
                          /\ (m.value < 0 \/ m.value > 180)
                       \/ (m.field = "MD" /\ m.value = rows[m.row].md
                           /\ m.value < 0)
                       \/ /\ m.field = "Azimuth"
                          /\ m.value = rows[m.row].az
                          /\ (m.value < 0 \/ m.value > 360)
               /\ (\A i \in 1..Len(rows) :
                      /\ rows[i].inc >= 0 /\ rows[i].inc <= 180
                      /\ rows[i].md >= 0
                      /\ rows[i].az >= 0 /\ rows[i].az < 360)
                  => (m = NoMessage /\ (rows # <<>> => survey[c].defined))

\* C4 witness: the second row is the first one rejected, and sorting by
\* measured depth would have put it first.
C4_Witness ==
    \E c \in Cycles :
        /\ allrows[c].defined
        /\ Len(allrows[c].val) = 2
        /\ allrows[c].val[2].md < allrows[c].val[1].md
        /\ allrows[c].val[2].md >= 0
        /\ surveyOverlay.row = 2
        /\ ~survey[c].defined

\* C5 (as stated): rows with an azimuth of exactly 360 fail validation.
C5_Azimuth360IsRejected ==
    \A c \in Cycles :
        (/\ allrows[c].defined
         /\ \E i \in 1..Len(allrows[c].val) : allrows[c].val[i].az = 360)
        => (~survey[c].defined /\ surveyOverlay # NoMessage)

\* C6: for non-empty rows that pass validation, the survey is the rows in
\* non-decreasing measured depth, rows of equal measured depth in their
\* input order, behind one station {md 0, inc 0, az 0} exactly when the
\* smallest measured depth is above 0.1; its first measured depth is at
\* most 0.1.
C6_SortedBehindSurfaceStation ==
    \A c \in Cycles :
        survey[c].defined =>
            LET rows == allrows[c].val
                out == survey[c].val
                n == Len(rows)
                lead == IF \A i \in 1..n : rows[i].md > MdTol THEN 1 ELSE 0
            IN /\ n > 0
               /\ Len(out) = n + lead
               /\ lead = 1 => out[1] = [md |-> 0, inc |-> 0, az |-> 0]
               /\ \A i \in 1..(Len(out) - 1) : out[i].md <= out[i + 1].md
               /\ out[1].md <= MdTol
               /\ \E f \in [1..n -> 1..n] :
                     /\ \A i, j \in 1..n : i # j => f[i] # f[j]
                     /\ \A i \in 1..n : out[lead + i] = rows[f[i]]
                     /\ \A i, j \in 1..n :
                           (i < j /\ rows[f[i]].md = rows[f[j]].md)
                           => f[i] < f[j]

\* C6 witness: rows given in decreasing measured depth, all above 0.1, have
\* been sorted and put behind the surface station.
C6_Witness ==
    \E c \in Cycles :
        /\ survey[c].defined
        /\ Len(allrows[c].val) = 2
        /\ allrows[c].val[1].md > allrows[c].val[2].md
        /\ Len(survey[c].val) = 3

\* C7 (as stated): the integrator's output is as long as its input, its
\* first station has tvd, ew, ns and x of 0, and both x and tvd never
\* decrease along it.
C7_DepthNeverDecreases ==
    \A c \in Cycles :
        processed_survey[c].defined =>
            LET p == processed_survey[c].val
            IN /\ Len(p) = Len(survey[c].val)
               /\ p[1].tvd = 0 /\ p[1].ew = 0 /\ p[1].ns = 0 /\ p[1].x = 0
               /\ \A i \in 1..(Len(p) - 1) :
                     p[i + 1].x >= p[i].x /\ p[i + 1].tvd >= p[i].tvd

\* C7 (amended): the integrator's output is as long as its input, its first
\* station has tvd, ew, ns and x of 0, x never decreases along it, and tvd
\* never decreases along it when no inclination is above 90 degrees.
C7_DepthNeverDecreasesBelowHorizontal ==
    \A c \in Cycles :
        processed_survey[c].defined =>
            LET p == processed_survey[c].val
            IN /\ Len(p) = Len(survey[c].val)
               /\ \A i \in 1..Len(p) :
                     /\ p[i].md = survey[c].val[i].md
                     /\ p[i].inc = survey[c].val[i].inc
                     /\ p[i].az = survey[c].val[i].az
               /\ p[1].tvd = 0 /\ p[1].ew = 0 /\ p[1].ns = 0 /\ p[1].x = 0
               /\ \A i \in 1..(Len(p) - 1) : p[i + 1].x >= p[i].x
               /\ (\A i \in 1..Len(p) : p[i].inc <= 90)
                  => \A i \in 1..(Len(p) - 1) : p[i + 1].tvd >= p[i].tvd

\* C7 witness: a trajectory of four stations, none above 90 degrees and one
\* at 90, that has gone both down and sideways.
C7_Witness ==
    \E c \in Cycles :
        /\ processed_survey[c].defined
        /\ LET p == processed_survey[c].val
           IN /\ Len(p) = 4
              /\ \A i \in 1..4 : p[i].inc <= 90
              /\ \E i \in 1..4 : p[i].inc = 90
              /\ p[4].tvd > p[2].tvd
              /\ p[4].x > p[2].x

\* C8 (as stated): the single row {md 0, inc 0, az 0} goes through the
\* whole pipeline: one station with tvd, ew, ns and x of 0 and a theta.
C8_SingleStationIsPlotted ==
    \A c \in Cycles :
        (allrows[c].defined /\ allrows[c].val = <<[md |-> 0, inc |-> 0,
                                                   az |-> 0]>>)
        => /\ pc[c] = "done"
           /\ error[c] = "none"
           /\ processed_survey[c].defined
           /\ Len(processed_survey[c].val) = 1
           /\ LET p == processed_survey[c].val[1]
              IN p.tvd = 0 /\ p.ew = 0 /\ p.ns = 0 /\ p.x = 0
           /\ Len(thetas[c]) = 1
           /\ ~thetas[c][1].nan

\* C9 (as stated): after the slope computation of a trajectory of two or
\* more stations every station, index 0 included, has a theta in [0, pi)
\* that is not NaN, and no TypeError leaves the computation.
C9_EveryStationHasTheta ==
    \A c \in Cycles :
        (processed_survey[c].defined /\ Len(processed_survey[c].val) >= 2)
        => /\ error[c] # "compute_slope"
           /\ Len(thetas[c]) = Len(processed_survey[c].val)
           /\ \A i \in 1..Len(thetas[c]) :
                 /\ ~thetas[c][i].nan
                 /\ thetas[c][i].deg >= 0
                 /\ thetas[c][i].deg < 180

\* C10 (as stated): when no cycle is suspended, the svg holds the output of
\* the cycle that last cleared it and nothing else: at most one wellbore
\* group and one axes group, appended and drawn into by that cycle only.
C10_OnlyTheLatestCycleIsShown ==
    (\A c \in Cycles : pc[c] \notin {"getErrors", "allRows"})
    => /\ Cardinality({i \in 1..Len(svg) : svg[i].class = "wellbore"}) <= 1
       /\ Cardinality({i \in 1..Len(svg) : svg[i].class = "axes"}) <= 1
       /\ \A i \in 1..Len(svg) :
             /\ svg[i].by = started
             /\ \A j \in 1..Len(svg[i].drawn) : svg[i].drawn[j] = started

====
